---- MODULE Spec2Model ----
(***************************************************************************)
(* DynamicRingBuffer (src/src/buffer/dynamic-ring-buffer.ts): the slot     *)
(* array with head, tail and capacity, the unserialized operations, and    *)
(* the promise-chain lock behind the "safe" operations, run by a           *)
(* JavaScript microtask queue.                                             *)
(***************************************************************************)
EXTENDS Integers, Sequences, FiniteSets, TLC

\* ---------------------------------------------------------------- bounds
\* Largest initialCapacity a buffer is constructed with.
MaxInitialCapacity == 3
\* Largest newCapacity given to resizeSafe.
MaxNewCapacity == 2
\* Capacity never grows beyond this: an insert that could is not issued.
MaxCapacity == 6
\* Items inserted over a run; they are numbered 1, 2, ... in insertion order.
MaxItems == 3
\* Largest explicit count given to flush.
MaxCount == 2
\* Safe calls issued over a run; task t is the t-th call to arrive.
MaxTasks == 4
\* resizeSafe calls issued among the unserialized operations.
MaxResizes == 1
\* Times the consumer of a safe iteration that may not end calls next() again.
MaxYields == 4

\* ---------------------------------------------------------------- values
\* The empty marker the constructor and resize fill the slots with.
Null == 0
\* What a hole of `new Array(n)`, or a read past the array's end, yields.
Undefined == -1

Items == 1..MaxItems
Tasks == 1..MaxTasks

VARIABLES
    buffer,           \* this.buffer: the JS array, slot i at buffer[i + 1]
    head,             \* this.head
    tail,             \* this.tail
    capacity,         \* this.capacity
    initialCapacity,  \* this.initialCapacity
    lock,             \* this.lock: the promise installed last (0: Promise.resolve())
    resolveLock,      \* this.resolveLock: the promise it resolves (0: the no-op)
    promises,         \* the promises acquireLock created so far: 1..promises
    fulfilled,        \* the promises resolved so far
    reactions,        \* per pending promise, the tasks awaiting it, in order
    microtasks,       \* the microtask queue: tasks whose continuation is ready
    pc,               \* per task, where its async function is suspended
    call,             \* per task, the safe operation it issued
    nextItem,         \* the next item to be inserted
    hung,             \* a flush loop that never ends was entered
    last,             \* the last operation run: its name and arguments, and in
                      \* value the array flush returned, else <<what it returned>>
    fifo,             \* while only enqueue and dequeue have run (pure): the
                      \* items enqueued and not yet dequeued, oldest first
    cursor,           \* the cursor biForwardIterator or biReverseIterator
                      \* returned: its index and captured capacity; live: the
                      \* array it captured is still this.buffer, else old holds
                      \* that array; from: its index before the last call;
                      \* mutated: an operation has run on the buffer since
                      \* the cursor was created
    iter,             \* the generator forwardIteratorSafe or
                      \* reverseIteratorSafe returned: its index and captured
                      \* capacity, and how often it has acquired the lock,
                      \* released it and yielded
    installed         \* per task holding the lock, the promise its acquireLock
                      \* installed as this.lock (0: it holds none)

vars == <<buffer, head, tail, capacity, initialCapacity, lock, resolveLock,
          promises, fulfilled, reactions, microtasks, pc, call, nextItem, hung,
          last, fifo, cursor, iter, installed>>

gate == <<lock, resolveLock, promises, fulfilled, reactions, microtasks, pc,
          call, iter, installed>>

\* ------------------------------------------------------------ the object
\* The fields the buffer operations read and write.
this == [buffer |-> buffer, head |-> head, tail |-> tail,
         capacity |-> capacity, initialCapacity |-> initialCapacity]

\* arr[i] of a JS array: undefined outside 0..length-1.
At(arr, i) == IF i >= 0 /\ i < Len(arr) THEN arr[i + 1] ELSE Undefined

\* arr[i] = v of a JS array: a write past the end lengthens it, leaving holes.
Put(arr, i, v) ==
    IF i < Len(arr) THEN [arr EXCEPT ![i + 1] = v]
    ELSE [k \in 1..(i + 1) |->
            IF k <= Len(arr) THEN arr[k] ELSE IF k = i + 1 THEN v ELSE Undefined]

\* new Array(n).fill(null)
NullArray(n) == [k \in 1..n |-> Null]

\* new Array(n): n holes
HoleArray(n) == [k \in 1..n |-> Undefined]

size(b) ==
    IF b.tail >= b.head THEN b.tail - b.head
    ELSE b.capacity - b.head + b.tail

isEmpty(b) == size(b) = 0

isFull(b) == size(b) = b.capacity

resize(b, newCapacity) ==
    LET currentSize == size(b)
        length == IF currentSize > newCapacity THEN currentSize ELSE newCapacity
        newBuffer == [k \in 1..length |->
                        IF k <= currentSize
                        THEN At(b.buffer, (b.head + (k - 1)) % b.capacity)
                        ELSE Null]
    IN  [b EXCEPT !.buffer = newBuffer, !.capacity = newCapacity,
                  !.head = 0, !.tail = currentSize % newCapacity]

enqueue(b, item) ==
    LET g == IF isFull(b) THEN resize(b, b.capacity * 2) ELSE b
    IN  [g EXCEPT !.buffer = Put(g.buffer, g.tail, item),
                  !.tail = (g.tail + 1) % g.capacity]

\* A dequeue that reads and advances head without testing isEmpty() first.
dequeueUnchecked(b) ==
    [value |-> At(b.buffer, b.head),
     this |-> [b EXCEPT !.buffer = Put(b.buffer, b.head, Null),
                        !.head = (b.head + 1) % b.capacity]]

\* dequeue, pop and flush return [value, this]: the result and the object after.
dequeue(b) ==
    IF isEmpty(b) THEN [value |-> Null, this |-> b]
    ELSE [value |-> At(b.buffer, b.head),
          this |-> [b EXCEPT !.buffer = Put(b.buffer, b.head, Null),
                             !.head = (b.head + 1) % b.capacity]]

push(b, value) ==
    LET w == [b EXCEPT !.buffer = Put(b.buffer, b.tail, value),
                       !.tail = (b.tail + 1) % b.capacity]
    IN  IF w.tail = w.head THEN resize(w, w.capacity * 2) ELSE w

pop(b) ==
    IF isEmpty(b) THEN [value |-> Null, this |-> b]
    ELSE [value |-> At(b.buffer, b.head),
          this |-> [b EXCEPT !.buffer = Put(b.buffer, b.head, Null),
                             !.head = (b.head + 1) % b.capacity]]

\* The while loop of flush: this.size() does not change while it runs.
RECURSIVE flushLoop(_, _, _, _, _)
flushLoop(b, count, forward, currentIndex, flushedElements) ==
    IF count > 0 /\ size(b) > 0
    THEN LET value == At(b.buffer, currentIndex)
             taken == value # Null /\ value # Undefined
             step  == IF forward THEN (currentIndex + 1) % b.capacity
                      ELSE IF currentIndex = 0 THEN b.capacity - 1
                      ELSE currentIndex - 1
         IN  flushLoop(b, IF taken THEN count - 1 ELSE count, forward, step,
                       IF taken THEN Append(flushedElements, value)
                       ELSE flushedElements)
    ELSE [currentIndex |-> currentIndex, flushedElements |-> flushedElements]

\* The loop of flush never ends: it is entered and no slot it cycles through
\* (0..capacity-1, from any start in that range) holds a value.
flushDiverges(b, count) ==
    /\ count > 0
    /\ size(b) > 0
    /\ \A i \in 0..(b.capacity - 1) : At(b.buffer, i) \in {Null, Undefined}

flush(b, count, forward) ==
    IF count <= 0 THEN [value |-> <<>>, this |-> b]
    ELSE LET start == IF forward THEN b.head
                      ELSE IF b.tail = 0 THEN b.capacity - 1 ELSE b.tail - 1
             r == flushLoop(b, count, forward, start, <<>>)
         IN  [value |-> r.flushedElements,
              this |-> IF forward THEN [b EXCEPT !.head = r.currentIndex]
                       ELSE [b EXCEPT !.tail = IF r.currentIndex = 0
                                                THEN b.capacity - 1
                                                ELSE r.currentIndex + 1]]

reset(b) ==
    [b EXCEPT !.buffer = HoleArray(b.initialCapacity), !.head = 0, !.tail = 0]

\* The live window read slot by slot from head: what the buffer holds.
Contents(b) ==
    [k \in 1..size(b) |-> At(b.buffer, (b.head + (k - 1)) % b.capacity)]

\* ---------------------------------------------------------------- cursors
\* A cursor is the closure's variables: index, and the array and the capacity
\* captured when it was created. next and previous return [value, index]:
\* value is <<the value>>, or <<>> when done, and index the cursor's index
\* after the call. this.head and this.tail are read from b as the call runs.
biForwardIterator(b) ==
    [index |-> b.head, buffer |-> b.buffer, capacity |-> b.capacity]

forwardNext(b, it) ==
    IF it.index # b.tail
    THEN [value |-> <<At(it.buffer, it.index)>>,
          index |-> (it.index + 1 + it.capacity) % it.capacity]
    ELSE [value |-> <<>>, index |-> it.index]

forwardPrevious(b, it) ==
    IF it.index # b.head
    THEN LET index == (it.index - 1 + it.capacity) % it.capacity
         IN  [value |-> <<At(it.buffer, index)>>, index |-> index]
    ELSE [value |-> <<>>, index |-> it.index]

biReverseIterator(b) ==
    [index |-> (b.tail - 1 + b.capacity) % b.capacity, buffer |-> b.buffer,
     capacity |-> b.capacity]

reverseNext(b, it) ==
    IF it.index # (b.head - 1 + it.capacity) % it.capacity
    THEN [value |-> <<At(it.buffer, it.index)>>,
          index |-> (it.index - 1 + it.capacity) % it.capacity]
    ELSE [value |-> <<>>, index |-> it.index]

reversePrevious(b, it) ==
    LET index == (it.index + 1) % it.capacity
    IN  IF index # b.tail
        THEN [value |-> <<At(it.buffer, index)>>, index |-> index]
        ELSE [value |-> <<>>, index |-> index]

\* The call `method` ("next" or "previous") on cursor it of the given kind.
Step(b, it, kind, method) ==
    CASE kind = "forward" /\ method = "next" -> forwardNext(b, it)
      [] kind = "forward" /\ method = "previous" -> forwardPrevious(b, it)
      [] kind = "reverse" /\ method = "next" -> reverseNext(b, it)
      [] kind = "reverse" /\ method = "previous" -> reversePrevious(b, it)

\* n calls of next() on cursor it, b unchanged meanwhile: the values yielded,
\* and whether a call reported done.
RECURSIVE Walk(_, _, _, _, _)
Walk(b, it, kind, n, yielded) ==
    IF n = 0 THEN [done |-> FALSE, values |-> yielded]
    ELSE LET r == Step(b, it, kind, "next")
         IN  IF r.value = <<>> THEN [done |-> TRUE, values |-> yielded]
             ELSE Walk(b, [it EXCEPT !.index = r.index], kind, n - 1,
                       yielded \o r.value)

\* [Symbol.iterator]: the loop from currentIndex, visiting at most n slots.
RECURSIVE iterate(_, _, _, _)
iterate(b, currentIndex, n, yielded) ==
    IF currentIndex = b.tail THEN [done |-> TRUE, values |-> yielded]
    ELSE IF n = 0 THEN [done |-> FALSE, values |-> yielded]
    ELSE LET value == At(b.buffer, currentIndex)
         IN  iterate(b, (currentIndex + 1) % b.capacity, n - 1,
                     IF value # Null THEN Append(yielded, value) ELSE yielded)

\* The whole iteration: it ends within capacity slots or never does.
iterator(b) == iterate(b, b.head, b.capacity, <<>>)

\* ------------------------------------------------------------------ init
\* A call: the operation's name and its arguments (arg: the item, the count
\* or the new capacity; forward: flush's direction).
NoCall == [name |-> "none", arg |-> 0, forward |-> TRUE]

\* No safe iteration has been started.
NoIter ==
    [kind |-> "none", index |-> 0, capacity |-> 0, acquired |-> 0,
     released |-> 0, yielded |-> 0]

\* No cursor has been created.
NoCursor ==
    [kind |-> "none", index |-> 0, capacity |-> 0, live |-> TRUE, old |-> <<>>,
     from |-> 0, mutated |-> FALSE]

Init ==
    /\ initialCapacity \in 1..MaxInitialCapacity
    /\ capacity = initialCapacity
    /\ buffer = NullArray(initialCapacity)
    /\ head = 0
    /\ tail = 0
    /\ lock = 0
    /\ resolveLock = 0
    /\ promises = 0
    /\ fulfilled = {0}
    /\ reactions = [p \in {0} |-> <<>>]
    /\ microtasks = <<>>
    /\ pc = [t \in Tasks |-> "idle"]
    /\ call = [t \in Tasks |-> NoCall]
    /\ nextItem = 1
    /\ hung = FALSE
    /\ last = [op |-> "new", arg |-> 0, forward |-> TRUE, value |-> <<>>]
    /\ fifo = [pure |-> TRUE, items |-> <<>>]
    /\ cursor = NoCursor
    /\ iter = NoIter
    /\ installed = [t \in Tasks |-> 0]

\* The constructor called with any initialCapacity from 0: it assigns the
\* fields and tests nothing. (A negative one makes `new Array` throw a
\* RangeError.)
InitAny ==
    /\ initialCapacity \in 0..MaxInitialCapacity
    /\ capacity = initialCapacity
    /\ buffer = NullArray(initialCapacity)
    /\ head = 0
    /\ tail = 0
    /\ lock = 0
    /\ resolveLock = 0
    /\ promises = 0
    /\ fulfilled = {0}
    /\ reactions = [p \in {0} |-> <<>>]
    /\ microtasks = <<>>
    /\ pc = [t \in Tasks |-> "idle"]
    /\ call = [t \in Tasks |-> NoCall]
    /\ nextItem = 1
    /\ hung = FALSE
    /\ last = [op |-> "new", arg |-> 0, forward |-> TRUE, value |-> <<>>]
    /\ fifo = [pure |-> TRUE, items |-> <<>>]
    /\ cursor = NoCursor
    /\ iter = NoIter
    /\ installed = [t \in Tasks |-> 0]

\* The object after an operation.
Becomes(b) ==
    /\ buffer' = b.buffer
    /\ head' = b.head
    /\ tail' = b.tail
    /\ capacity' = b.capacity
    /\ initialCapacity' = b.initialCapacity

\* What operation c returns and leaves of the object.
Result(c) ==
    CASE c.name = "enqueue" -> [value |-> <<Undefined>>,
                                this |-> enqueue(this, c.arg)]
      [] c.name = "dequeue" -> [value |-> <<dequeue(this).value>>,
                                this |-> dequeue(this).this]
      [] c.name = "push"    -> [value |-> <<Undefined>>,
                                this |-> push(this, c.arg)]
      [] c.name = "pop"     -> [value |-> <<pop(this).value>>,
                                this |-> pop(this).this]
      [] c.name = "flush"   -> flush(this, c.arg, c.forward)
      [] c.name = "resize"  -> [value |-> <<Undefined>>,
                                this |-> resize(this, c.arg)]
      [] c.name = "reset"   -> [value |-> <<Undefined>>,
                                this |-> reset(this)]

\* Operation c never returns.
Hangs(c) == c.name = "flush" /\ flushDiverges(this, c.arg)

\* The queue that enqueue and dequeue are to implement, after operation c.
Queue(c) ==
    CASE ~fifo.pure \/ c.name \notin {"enqueue", "dequeue"} ->
            [pure |-> FALSE, items |-> <<>>]
      [] c.name = "enqueue" -> [fifo EXCEPT !.items = Append(@, c.arg)]
      [] fifo.items = <<>> -> fifo
      [] OTHER -> [fifo EXCEPT !.items = Tail(@)]

\* Operation c assigns a new array to this.buffer.
Reallocates(c) ==
    \/ c.name \in {"resize", "reset"}
    \/ c.name = "enqueue" /\ isFull(this)
    \/ c.name = "push" /\ (tail + 1) % capacity = head

\* The array operation c replaces, as c leaves it: push writes its slot first.
Discarded(c) ==
    IF c.name = "push" THEN Put(buffer, tail, c.arg) ELSE buffer

\* Operation c runs on the object, to completion or into its endless loop.
Do(c) ==
    /\ IF Hangs(c)
       THEN /\ hung' = TRUE
            /\ UNCHANGED <<buffer, head, tail, capacity, initialCapacity>>
            /\ last' = [op |-> c.name, arg |-> c.arg, forward |-> c.forward,
                        value |-> <<>>]
       ELSE LET r == Result(c)
            IN  /\ hung' = hung
                /\ Becomes(r.this)
                /\ last' = [op |-> c.name, arg |-> c.arg,
                            forward |-> c.forward, value |-> r.value]
    /\ fifo' = Queue(c)
    /\ cursor' = IF cursor.kind = "none" \/ Hangs(c) THEN cursor
                 ELSE IF cursor.live /\ Reallocates(c)
                 THEN [cursor EXCEPT !.live = FALSE, !.old = Discarded(c),
                                     !.mutated = TRUE]
                 ELSE [cursor EXCEPT !.mutated = TRUE]


\* The counts a caller passes to flush: explicit ones, or the default size().
Counts == (0..MaxCount) \cup {size(this)}
\* flushSafe is called without a count: the default, this.size() evaluated as
\* the call is made, before the lock is awaited.
SafeCounts == {size(this)}

\* ------------------------------------------------- unserialized operations
Enqueue ==
    /\ ~hung
    /\ nextItem <= MaxItems
    /\ enqueue(this, nextItem).capacity <= MaxCapacity
    /\ Do([name |-> "enqueue", arg |-> nextItem, forward |-> TRUE])
    /\ nextItem' = nextItem + 1
    /\ UNCHANGED gate

Dequeue ==
    /\ ~hung
    /\ Do([name |-> "dequeue", arg |-> 0, forward |-> TRUE])
    /\ UNCHANGED <<gate, nextItem>>

Push ==
    /\ ~hung
    /\ nextItem <= MaxItems
    /\ push(this, nextItem).capacity <= MaxCapacity
    /\ Do([name |-> "push", arg |-> nextItem, forward |-> TRUE])
    /\ nextItem' = nextItem + 1
    /\ UNCHANGED gate

Pop ==
    /\ ~hung
    /\ Do([name |-> "pop", arg |-> 0, forward |-> TRUE])
    /\ UNCHANGED <<gate, nextItem>>

Flush ==
    /\ ~hung
    /\ \E count \in Counts, forward \in BOOLEAN :
          Do([name |-> "flush", arg |-> count, forward |-> forward])
    /\ UNCHANGED <<gate, nextItem>>

Reset ==
    /\ ~hung
    /\ Do([name |-> "reset", arg |-> 0, forward |-> TRUE])
    /\ UNCHANGED <<gate, nextItem>>

\* ---------------------------------------------------------------- cursors
\* The cursor as its closure holds it: the captured array is this.buffer
\* until an operation replaces that array.
Captured ==
    [index |-> cursor.index,
     buffer |-> IF cursor.live THEN buffer ELSE cursor.old,
     capacity |-> cursor.capacity]

\* The one cursor of a run is created.
Create(kind, it) ==
    /\ cursor.kind = "none"
    /\ cursor' = [kind |-> kind, index |-> it.index, capacity |-> it.capacity,
                  live |-> TRUE, old |-> <<>>, from |-> it.index,
                  mutated |-> FALSE]
    /\ UNCHANGED <<buffer, head, tail, capacity, initialCapacity, gate,
                   nextItem, hung, last, fifo>>

BiForwardIterator ==
    /\ ~hung
    /\ Create("forward", biForwardIterator(this))

BiReverseIterator ==
    /\ ~hung
    /\ Create("reverse", biReverseIterator(this))

\* next() or previous() is called on the cursor.
Call(method) ==
    /\ cursor.kind # "none"
    /\ LET r == Step(this, Captured, cursor.kind, method)
       IN  /\ cursor' = [cursor EXCEPT !.index = r.index, !.from = cursor.index]
           /\ last' = [op |-> method, arg |-> 0,
                       forward |-> cursor.kind = "forward", value |-> r.value]
    /\ UNCHANGED <<buffer, head, tail, capacity, initialCapacity, gate,
                   nextItem, hung, fifo>>

CursorNext ==
    /\ ~hung
    /\ Call("next")

CursorPrevious ==
    /\ ~hung
    /\ Call("previous")

\* ------------------------------------------------------- safe operations
\* The microtask at the front of the queue is task t's continuation.
Ready(t) == ~hung /\ microtasks # <<>> /\ Head(microtasks) = t

\* Task t, the next caller to arrive, calls a safe operation c: the call runs
\* acquireLock up to `await this.lock`. The continuation is queued at once
\* when that promise is already fulfilled, and is a reaction of it otherwise.
Await(t, c) ==
    /\ ~hung
    /\ pc[t] = "idle"
    /\ \A u \in Tasks : u < t => pc[u] # "idle"
    /\ call' = [call EXCEPT ![t] = c]
    /\ pc' = [pc EXCEPT ![t] = "awaitLock"]
    /\ IF lock \in fulfilled
       THEN /\ microtasks' = Append(microtasks, t)
            /\ UNCHANGED reactions
       ELSE /\ reactions' = [reactions EXCEPT ![lock] = Append(@, t)]
            /\ UNCHANGED microtasks
    /\ UNCHANGED <<buffer, head, tail, capacity, initialCapacity, lock,
                   resolveLock, promises, fulfilled, hung, last, fifo, cursor,
                   iter, installed>>

\* The safe inserts issued and not yet run.
PendingInserts ==
    {t \in Tasks : pc[t] \in {"awaitLock", "awaitAcquire"}
                   /\ call[t].name \in {"enqueue", "push"}}

\* One more safe insert cannot take the capacity beyond MaxCapacity, even if
\* it and every pending one doubles it after a pending resize.
Room ==
    LET base == IF capacity > MaxNewCapacity THEN capacity ELSE MaxNewCapacity
    IN  base * 2 ^ (Cardinality(PendingInserts) + 1) <= MaxCapacity

EnqueueSafe(t) ==
    /\ nextItem <= MaxItems
    /\ Room
    /\ Await(t, [name |-> "enqueue", arg |-> nextItem, forward |-> TRUE])
    /\ nextItem' = nextItem + 1

DequeueSafe(t) ==
    /\ Await(t, [name |-> "dequeue", arg |-> 0, forward |-> TRUE])
    /\ UNCHANGED nextItem

\* The default of size is this.size() as the call is made.
FlushSafe(t) ==
    /\ \E count \in SafeCounts, forward \in BOOLEAN :
          Await(t, [name |-> "flush", arg |-> count, forward |-> forward])
    /\ UNCHANGED nextItem

ResizeSafe(t) ==
    /\ \E newCapacity \in 1..MaxNewCapacity :
          Await(t, [name |-> "resize", arg |-> newCapacity, forward |-> TRUE])
    /\ UNCHANGED nextItem

\* resizeSafe called with a capacity larger than the current one.
GrowSafe(t) ==
    /\ \E newCapacity \in (capacity + 1)..MaxCapacity :
          Await(t, [name |-> "resize", arg |-> newCapacity, forward |-> TRUE])
    /\ UNCHANGED nextItem

PushSafe(t) ==
    /\ nextItem <= MaxItems
    /\ Room
    /\ Await(t, [name |-> "push", arg |-> nextItem, forward |-> TRUE])
    /\ nextItem' = nextItem + 1

PopSafe(t) ==
    /\ Await(t, [name |-> "pop", arg |-> 0, forward |-> TRUE])
    /\ UNCHANGED nextItem

ResetSafe(t) ==
    /\ Await(t, [name |-> "reset", arg |-> 0, forward |-> TRUE])
    /\ UNCHANGED nextItem

\* The calls that are safe iterations.
Iterators == {"forwardIterator", "reverseIterator"}

\* acquireLock after `await this.lock`: a new pending promise becomes this.lock
\* and its resolver this.resolveLock; acquireLock's own promise is fulfilled,
\* which queues the continuation of the safe operation awaiting it.
acquireLock(t) ==
    /\ Ready(t)
    /\ pc[t] = "awaitLock"
    /\ promises' = promises + 1
    /\ lock' = promises + 1
    /\ resolveLock' = promises + 1
    /\ reactions' = reactions @@ ((promises + 1) :> <<>>)
    /\ pc' = [pc EXCEPT ![t] = "awaitAcquire"]
    /\ microtasks' = Append(Tail(microtasks), t)
    /\ iter' = IF call[t].name \in Iterators
               THEN [iter EXCEPT !.acquired = @ + 1] ELSE iter
    /\ installed' = [installed EXCEPT ![t] = promises + 1]
    /\ UNCHANGED <<buffer, head, tail, capacity, initialCapacity, fulfilled,
                   call, nextItem, hung, last, fifo, cursor>>

\* releaseLock: this.resolveLock() fulfils its promise, once, and queues the
\* reactions of that promise in the order they were added. queue: the
\* microtasks left as the call is made.
releaseLock(queue) ==
    IF resolveLock \in fulfilled
    THEN /\ microtasks' = queue
         /\ UNCHANGED <<fulfilled, reactions>>
    ELSE /\ fulfilled' = fulfilled \cup {resolveLock}
         /\ microtasks' = queue \o reactions[resolveLock]
         /\ reactions' = [reactions EXCEPT ![resolveLock] = <<>>]

\* A safe operation after `await this.acquireLock()`: the unserialized
\* operation, then releaseLock(), then the return.
Body(t) ==
    /\ Ready(t)
    /\ pc[t] = "awaitAcquire"
    /\ call[t].name \notin {"reset"} \cup Iterators
    /\ Do(call[t])
    /\ call' = [call EXCEPT ![t] = NoCall]
    /\ IF Hangs(call[t])
       THEN UNCHANGED <<fulfilled, reactions, microtasks, pc, installed>>
       ELSE /\ releaseLock(Tail(microtasks))
            /\ pc' = [pc EXCEPT ![t] = "done"]
            /\ installed' = [installed EXCEPT ![t] = 0]
    /\ UNCHANGED <<lock, resolveLock, promises, nextItem, iter>>

\* resetSafe after `await this.acquireLock()`: reset(), then
\* `await this.releaseLock()`, which awaits undefined.
ResetBody(t) ==
    /\ Ready(t)
    /\ pc[t] = "awaitAcquire"
    /\ call[t].name = "reset"
    /\ Do(call[t])
    /\ call' = [call EXCEPT ![t] = NoCall]
    /\ fulfilled' = fulfilled \cup {resolveLock}
    /\ microtasks' = Append(IF resolveLock \in fulfilled THEN Tail(microtasks)
                            ELSE Tail(microtasks) \o reactions[resolveLock], t)
    /\ reactions' = [reactions EXCEPT ![resolveLock] = <<>>]
    /\ pc' = [pc EXCEPT ![t] = "awaitRelease"]
    /\ installed' = [installed EXCEPT ![t] = 0]
    /\ UNCHANGED <<lock, resolveLock, promises, nextItem, iter>>

\* resetSafe returns.
ResetReturn(t) ==
    /\ Ready(t)
    /\ pc[t] = "awaitRelease"
    /\ microtasks' = Tail(microtasks)
    /\ pc' = [pc EXCEPT ![t] = "done"]
    /\ UNCHANGED <<buffer, head, tail, capacity, initialCapacity, lock,
                   resolveLock, promises, fulfilled, reactions, call, nextItem,
                   hung, last, fifo, cursor, iter, installed>>

\* ------------------------------------------------------- safe iterations
\* The task that runs the one safe iteration of a run: the first to arrive.
Iterating == 1

\* The while test of a safe iteration at index, with its captured capacity.
More(kind, index, cap) ==
    IF kind = "forwardIterator" THEN index # tail
    ELSE index # (head - 1 + cap) % cap

\* The generator of task t runs from the while test: it returns, or calls
\* acquireLock and is suspended at `await this.lock`.
Loop(t, kind, index, cap) ==
    IF More(kind, index, cap)
    THEN /\ pc' = [pc EXCEPT ![t] = "awaitLock"]
         /\ IF lock \in fulfilled
            THEN /\ microtasks' = Append(microtasks, t)
                 /\ UNCHANGED reactions
            ELSE /\ reactions' = [reactions EXCEPT ![lock] = Append(@, t)]
                 /\ UNCHANGED microtasks
    ELSE /\ pc' = [pc EXCEPT ![t] = "done"]
         /\ UNCHANGED <<microtasks, reactions>>

\* The first next() on a new generator: the body starts, takes its index and
\* the capacity, and runs to its first await or to its end.
Start(t, kind, index) ==
    /\ ~hung
    /\ t = Iterating
    /\ pc[t] = "idle"
    /\ call' = [call EXCEPT ![t] = [name |-> kind, arg |-> 0,
                                    forward |-> kind = "forwardIterator"]]
    /\ iter' = [NoIter EXCEPT !.kind = kind, !.index = index,
                              !.capacity = capacity]
    /\ Loop(t, kind, index, capacity)
    /\ UNCHANGED <<buffer, head, tail, capacity, initialCapacity, lock,
                   resolveLock, promises, fulfilled, nextItem, hung, last,
                   fifo, cursor, installed>>

ForwardIteratorSafe(t) ==
    /\ Start(t, "forwardIterator", head)

ReverseIteratorSafe(t) ==
    /\ Start(t, "reverseIterator", (tail - 1 + capacity) % capacity)

\* A generator that yields without calling releaseLock() first.
IterBodyHolding(t) ==
    /\ Ready(t)
    /\ pc[t] = "awaitAcquire"
    /\ call[t].name \in Iterators
    /\ last' = [op |-> call[t].name, arg |-> iter.index,
                forward |-> call[t].forward,
                value |-> <<At(buffer, iter.index)>>]
    /\ iter' = [iter EXCEPT
                  !.index = IF iter.kind = "forwardIterator"
                            THEN (iter.index + 1) % iter.capacity
                            ELSE (iter.index - 1 + iter.capacity) % iter.capacity]
    /\ microtasks' = Append(Tail(microtasks), t)
    /\ pc' = [pc EXCEPT ![t] = "yielding"]
    /\ UNCHANGED <<buffer, head, tail, capacity, initialCapacity, lock,
                   resolveLock, promises, fulfilled, reactions, call, nextItem,
                   hung, fifo, cursor, installed>>

\* The generator after `await this.acquireLock()`: it reads this.buffer[index],
\* steps index, calls releaseLock() and comes to `yield value`, which awaits
\* the value before the generator is suspended.
IterBody(t) ==
    /\ Ready(t)
    /\ pc[t] = "awaitAcquire"
    /\ call[t].name \in Iterators
    /\ last' = [op |-> call[t].name, arg |-> iter.index,
                forward |-> call[t].forward,
                value |-> <<At(buffer, iter.index)>>]
    /\ iter' = [iter EXCEPT
                  !.index = IF iter.kind = "forwardIterator"
                            THEN (iter.index + 1) % iter.capacity
                            ELSE (iter.index - 1 + iter.capacity) % iter.capacity,
                  !.released = @ + 1]
    /\ fulfilled' = fulfilled \cup {resolveLock}
    /\ microtasks' = Append(IF resolveLock \in fulfilled THEN Tail(microtasks)
                            ELSE Tail(microtasks) \o reactions[resolveLock], t)
    /\ reactions' = [reactions EXCEPT ![resolveLock] = <<>>]
    /\ pc' = [pc EXCEPT ![t] = "yielding"]
    /\ installed' = [installed EXCEPT ![t] = 0]
    /\ UNCHANGED <<buffer, head, tail, capacity, initialCapacity, lock,
                   resolveLock, promises, call, nextItem, hung, fifo, cursor>>

\* The value is handed to the consumer: the generator is suspended at yield.
IterYield(t) ==
    /\ Ready(t)
    /\ pc[t] = "yielding"
    /\ microtasks' = Tail(microtasks)
    /\ pc' = [pc EXCEPT ![t] = "yielded"]
    /\ iter' = [iter EXCEPT !.yielded = @ + 1]
    /\ UNCHANGED <<buffer, head, tail, capacity, initialCapacity, lock,
                   resolveLock, promises, fulfilled, reactions, call, nextItem,
                   hung, last, fifo, cursor, installed>>

\* The consumer calls next() again: the generator resumes after the yield.
IterResume(t) ==
    /\ ~hung
    /\ pc[t] = "yielded"
    /\ Loop(t, iter.kind, iter.index, iter.capacity)
    /\ UNCHANGED <<buffer, head, tail, capacity, initialCapacity, lock,
                   resolveLock, promises, fulfilled, call, nextItem, hung,
                   last, fifo, cursor, iter, installed>>

\* The event loop runs the microtask at the front of the queue.
RunMicrotask ==
    \E t \in Tasks : acquireLock(t) \/ Body(t) \/ ResetBody(t) \/ ResetReturn(t)

\* A caller arrives with a safe operation.
Arrive ==
    \E t \in Tasks :
        \/ EnqueueSafe(t)
        \/ DequeueSafe(t)
        \/ FlushSafe(t)
        \/ ResizeSafe(t)
        \/ PushSafe(t)
        \/ PopSafe(t)
        \/ ResetSafe(t)

\* -------------------------------------------------------- specifications
\* The safe operations alone; the event loop never leaves a microtask waiting.
NextSafe == Arrive \/ RunMicrotask

SpecSafe == Init /\ [][NextSafe]_vars /\ WF_vars(RunMicrotask)

\* The lock alone: callers of enqueueSafe and dequeueSafe, and the microtasks
\* that take them through acquireLock, the body and releaseLock.
RunLock == \E t \in Tasks : acquireLock(t) \/ Body(t)

NextLock == (\E t \in Tasks : EnqueueSafe(t) \/ DequeueSafe(t)) \/ RunLock

SpecLock == Init /\ [][NextLock]_vars /\ WF_vars(RunLock)

\* Every unserialized operation, and resizeSafe (resize is private).
Next ==
    \/ Enqueue
    \/ Dequeue
    \/ Push
    \/ Pop
    \/ Flush
    \/ Reset
    \/ \E t \in 1..MaxResizes : ResizeSafe(t)
    \/ \E t \in 1..MaxResizes : acquireLock(t) \/ Body(t)

Spec == Init /\ [][Next]_vars

\* A cursor over a buffer that enqueue, dequeue and push change under it.
NextCursor ==
    \/ Enqueue
    \/ Dequeue
    \/ Push
    \/ BiForwardIterator
    \/ BiReverseIterator
    \/ CursorNext
    \/ CursorPrevious

SpecCursor == Init /\ [][NextCursor]_vars

\* Buffers of any initialCapacity from 0, under enqueue, dequeue, push and
\* pop. On a buffer of capacity 0 the indices are computed modulo 0: no
\* operation is run on it.
NextAny ==
    \/ capacity > 0 /\ Enqueue
    \/ capacity > 0 /\ Dequeue
    \/ capacity > 0 /\ Push
    \/ capacity > 0 /\ Pop

SpecAny == InitAny /\ [][NextAny]_vars

\* A safe iteration over a buffer filled by enqueue, and one caller of
\* enqueueSafe or dequeueSafe arriving while it runs. The consumer of the
\* iteration calls next() when it likes, or never again.
RunIter ==
    \E t \in {Iterating, Iterating + 1} :
        acquireLock(t) \/ Body(t) \/ IterBody(t) \/ IterYield(t)

NextIter ==
    \/ Enqueue
    \/ ForwardIteratorSafe(Iterating)
    \/ ReverseIteratorSafe(Iterating)
    \/ IterResume(Iterating)
    \/ EnqueueSafe(Iterating + 1)
    \/ DequeueSafe(Iterating + 1)
    \/ RunIter

SpecIter == Init /\ [][NextIter]_vars /\ WF_vars(RunIter)

\* A safe iteration over a buffer filled by enqueue, while callers of
\* resizeSafe and pushSafe make the buffer grow. The consumer keeps calling
\* next(), MaxYields times at most.
Advance ==
    /\ iter.yielded < MaxYields
    /\ IterResume(Iterating)

RunGrow ==
    \E t \in Iterating..(Iterating + 2) :
        acquireLock(t) \/ Body(t) \/ IterBody(t) \/ IterYield(t)

NextGrow ==
    \/ Enqueue
    \/ ForwardIteratorSafe(Iterating)
    \/ ReverseIteratorSafe(Iterating)
    \/ Advance
    \/ \E t \in (Iterating + 1)..(Iterating + 2) : GrowSafe(t) \/ PushSafe(t)
    \/ RunGrow

SpecGrow == Init /\ [][NextGrow]_vars /\ WF_vars(RunGrow)

\* ---------------------------------------------------------------- steps
\* The steps that run an operation on the object, unserialized or as the
\* body of its safe variant.
Runs(name) ==
    \E t \in Tasks : Body(t) /\ call[t].name = name

Enqueues == Enqueue \/ Runs("enqueue")
Dequeues == Dequeue \/ Runs("dequeue")
Pushes == Push \/ Runs("push")
Flushes == Flush \/ Runs("flush")
Pops == Pop \/ Runs("pop")
Resizes == Runs("resize")

\* Task t holds the lock: its acquireLock has completed and it has not called
\* releaseLock yet.
Holds(t) == pc[t] = "awaitAcquire"

\* The body of task t has run.
Ran(t) == pc[t] \in {"awaitRelease", "done"}

Min(a, b) == IF a < b THEN a ELSE b

Reverse(q) == [k \in 1..Len(q) |-> q[Len(q) + 1 - k]]

\* What flush() with no argument returns: the elements, or that it never does.
FlushAll(b) ==
    IF flushDiverges(b, size(b)) THEN [returns |-> FALSE, value |-> <<>>]
    ELSE [returns |-> TRUE, value |-> flush(b, size(b), TRUE).value]

\* The indices are in range and every slot of the live window holds an item.
Sound(b) ==
    /\ b.head \in 0..(b.capacity - 1)
    /\ b.tail \in 0..(b.capacity - 1)
    /\ \A k \in 1..size(b) : Contents(b)[k] \in Items

\* The indices of the live window [head, tail), taken modulo capacity.
Window(b) == {(b.head + k) % b.capacity : k \in 0..(size(b) - 1)}

\* No slot outside the live window holds an item.
Vacated(b) ==
    \A i \in 0..(Len(b.buffer) - 1) :
        i \notin Window(b) => At(b.buffer, i) \notin Items

\* --------------------------------------------------------------- claims
\* C1: in every sequence of enqueue and dequeue calls, each dequeue returns
\* the oldest item enqueued and not yet dequeued, and null exactly when no
\* such item remains: no enqueued item is lost or overwritten.
C1_DequeueIsFifo ==
    [][(Dequeues /\ fifo.pure) =>
         last'.value = IF fifo.items = <<>> THEN <<Null>>
                       ELSE <<Head(fifo.items)>>]_vars

\* C2: enqueue doubles the capacity exactly when the buffer already holds
\* capacity - 1 items, and leaves the capacity unchanged on every other call.
C2_EnqueueDoublesWhenFull ==
    [][Enqueues =>
         capacity' = IF size(this) = capacity - 1 THEN capacity * 2
                     ELSE capacity]_vars

\* C3: after push(x) on a buffer holding [a1..ak] the buffer holds exactly
\* [a1..ak, x], also when the push doubles the capacity.
C3_PushAppends ==
    [][Pushes => Contents(this') = Append(Contents(this), last'.arg)]_vars

\* C4: in every reachable state head and tail are in [0, capacity), so
\* size() < capacity, and head = tail only when the buffer holds no live
\* element (so never right after an insert).
C4_IndicesInRange ==
    /\ head \in 0..(capacity - 1)
    /\ tail \in 0..(capacity - 1)
    /\ size(this) \in 0..(capacity - 1)
    /\ last.op \in {"enqueue", "push"} => head # tail

\* C5: the bodies of safe operations run in the order the calls arrived: no
\* body runs while the body of an earlier call has not.
C5_BodiesInArrivalOrder ==
    \A t, u \in Tasks : (u < t /\ Ran(t)) => Ran(u)

\* C6: every caller that awaits the lock is eventually granted it (unless
\* the program hangs in a flush loop meanwhile).
C6_EventuallyGranted ==
    \A t \in Tasks : (pc[t] = "awaitLock") ~> (pc[t] # "awaitLock" \/ hung)

\* C7: after reset() the capacity is initialCapacity, size() is 0, head and
\* tail are 0 and flush() returns the empty sequence.
C7_ResetRestores ==
    last.op = "reset" =>
        /\ capacity = initialCapacity
        /\ size(this) = 0
        /\ head = 0
        /\ tail = 0
        /\ FlushAll(this) = [returns |-> TRUE, value |-> <<>>]

\* C8: flush(count, true) with count > 0 on a buffer holding s items returns
\* the min(count, s) oldest, oldest first, and leaves s - min(count, s) items
\* and the capacity unchanged.
C8_FlushForward ==
    [][(Flushes /\ last'.forward /\ last'.arg > 0) =>
         LET s == size(this)
             m == Min(last'.arg, s)
         IN  /\ ~hung'
             /\ last'.value = SubSeq(Contents(this), 1, m)
             /\ size(this') = s - m
             /\ capacity' = capacity]_vars

\* C9: flush(count, false) with count > 0 on a buffer holding live items
\* [a1..as] returns the m = min(count, s) newest, newest first, and leaves
\* [a1..a(s-m)].
C9_FlushBackward ==
    [][(Flushes /\ ~last'.forward /\ last'.arg > 0 /\ size(this) > 0) =>
         LET s == size(this)
             m == Min(last'.arg, s)
         IN  /\ ~hung'
             /\ last'.value = Reverse(SubSeq(Contents(this), s - m + 1, s))
             /\ size(this') = s - m
             /\ Contents(this') = SubSeq(Contents(this), 1, s - m)]_vars

\* C10: a resize to any newCapacity >= size() keeps what flush() returns and
\* makes newCapacity the capacity.
C10_ResizePreserves ==
    [][(Resizes /\ last'.arg >= size(this)) =>
         /\ FlushAll(this') = FlushAll(this)
         /\ capacity' = last'.arg]_vars

\* C11: a resize to a newCapacity smaller than size() fails: it leaves head,
\* tail, capacity and the slots unchanged.
C11_ResizeBelowSizeFails ==
    [][(Resizes /\ Sound(this) /\ last'.arg < size(this)) =>
         UNCHANGED <<buffer, head, tail, capacity>>]_vars

\* C12: flushSafe() without a count returns everything the buffer holds when
\* its body runs, items of earlier enqueueSafe calls included, and leaves the
\* buffer empty.
C12_FlushSafeDrains ==
    [][(Runs("flush") /\ Sound(this) /\ last'.forward) =>
         /\ ~hung'
         /\ last'.value = Contents(this)
         /\ size(this') = 0]_vars

\* C13: pop removes and returns the last element of the buffer, the one
\* inserted most recently.
C13_PopIsLifo ==
    [][(Pops /\ Sound(this) /\ size(this) > 0) =>
         /\ last'.value = <<Contents(this)[size(this)]>>
         /\ Contents(this') = SubSeq(Contents(this), 1, size(this) - 1)]_vars

\* C14: on a buffer that is not changed meanwhile, a fresh forward cursor
\* stepped with next(), and the [Symbol.iterator] iteration, yield exactly
\* the size() live elements, oldest first, and then report done.
C14_ForwardTraversal ==
    LET all == [done |-> TRUE, values |-> Contents(this)]
    IN  /\ Walk(this, biForwardIterator(this), "forward", size(this) + 1,
                <<>>) = all
        /\ iterator(this) = all

\* C15: on a buffer that is not changed meanwhile, a fresh reverse cursor
\* stepped with next() yields exactly the size() live elements, newest
\* first, and then reports done (at the first call on an empty buffer).
C15_ReverseTraversal ==
    Walk(this, biReverseIterator(this), "reverse", size(this) + 1, <<>>)
        = [done |-> TRUE, values |-> Reverse(Contents(this))]

\* C16: previous() called right after next() takes the cursor back to the
\* index it had before the next() and returns what the next() returned.
C16_NextThenPrevious ==
    [][(CursorPrevious /\ last.op = "next") =>
         /\ cursor'.index = cursor.from
         /\ last'.value = last.value]_vars

\* C17: every next() and previous() that returns a value returns the one in
\* the buffer's current slot array at the index it read, and steps the index
\* modulo the current capacity, whatever array and capacity the buffer had
\* when the cursor was created.
C17_CursorsAreLive ==
    [][((CursorNext \/ CursorPrevious) /\ last'.value # <<>>) =>
         LET up == (cursor.kind = "forward") = (last'.op = "next")
             read == IF last'.op = "next" THEN cursor.index ELSE cursor'.index
         IN  /\ last'.value = <<At(buffer, read)>>
             /\ cursor'.index = IF up THEN (cursor.index + 1) % capacity
                                ELSE (cursor.index - 1 + capacity) % capacity]_vars

C19_CapacityPositive == capacity > 0

\* C20: dequeue() and pop() on an empty buffer return null and leave head,
\* tail, capacity and all slots unchanged.
C20_EmptyReadReturnsNull ==
    [][((Dequeues \/ Pops) /\ isEmpty(this)) =>
         /\ ~hung'
         /\ last'.value = <<Null>>
         /\ UNCHANGED <<buffer, head, tail, capacity>>]_vars

\* dequeue() or pop() has returned null on a buffer that is empty after
\* items went through it.
C20_EmptyRead ==
    /\ last.op \in {"dequeue", "pop"}
    /\ last.value = <<Null>>
    /\ isEmpty(this)
    /\ nextItem > 1

\* C21: at most one caller at a time is between the completion of its
\* acquireLock and its call of releaseLock.
C21_OneHolder ==
    \A t, u \in Tasks : (Holds(t) /\ Holds(u)) => t = u

\* C22: the promise a holder's releaseLock resolves is the one that this
\* holder's own acquireLock installed as this.lock.
C22_ReleasesOwnPromise ==
    [][\A t \in Tasks :
          (Body(t) \/ ResetBody(t) \/ IterBody(t)) =>
              resolveLock = installed[t]]_vars

\* C23: an operation that removes elements (dequeue, pop, flush) clears the
\* slots it vacates: if no slot outside the live window held an item before
\* it, none does after it.
C23_VacatedSlotsCleared ==
    [][((Dequeues \/ Pops \/ Flushes) /\ Sound(this) /\ Vacated(this)) =>
         Vacated(this')]_vars

\* C24: on a buffer that no operation has run on since the cursor was
\* created, every next() and previous() that returns a value has read a slot
\* inside the live window [head, tail).
C24_CursorStaysInWindow ==
    [][((CursorNext \/ CursorPrevious) /\ ~cursor.mutated
            /\ last'.value # <<>>) =>
         LET read == IF last'.op = "next" THEN cursor.index
                     ELSE cursor'.index
         IN  read \in Window(this)]_vars

\* The indices a safe iteration can take from where it is: it steps modulo the
\* capacity it captured at its start.
Positions == {(iter.index + k) % iter.capacity : k \in 0..(iter.capacity - 1)}

\* The index at which the while test of the iteration fails.
End ==
    IF iter.kind = "forwardIterator" THEN tail
    ELSE (head - 1 + iter.capacity) % iter.capacity

\* No safe operation other than the iteration is pending.
Quiet == \A t \in Tasks \ {Iterating} : pc[t] \in {"idle", "done"}

\* C25: a safe iteration in progress that is advanced on a buffer no longer
\* mutated ends, whatever resizeSafe or a growing insert did between its
\* yields: the index at which it ends is among those its index can take.
C25_IterationCanEnd ==
    (iter.kind # "none" /\ pc[Iterating] \notin {"idle", "done"} /\ Quiet)
        => End \in Positions

====
